---- MODULE Spec2Model ----
(***************************************************************************)
(* Release versioning and artifact governance of PakFu (scripts/):         *)
(*   next_version.py            version resolution from tags and commits   *)
(*   release_assets.py          artifact file-name codec                   *)
(*   release_manifest.py        manifest assembly                          *)
(*   validate_release_assets.py completeness validation                    *)
(*                                                                         *)
(* Python strings are modelled as sequences of one-character strings, so   *)
(* that formatting, parsing, case folding and regular-expression matching  *)
(* are computed character by character.                                    *)
(***************************************************************************)
EXTENDS Integers, Sequences, FiniteSets, TLC

(***************************************************************************)
(* Characters and the str methods the scripts use.                         *)
(***************************************************************************)
UpperAlpha ==
  <<"A","B","C","D","E","F","G","H","I","J","K","L","M",
    "N","O","P","Q","R","S","T","U","V","W","X","Y","Z">>

LowerAlpha ==
  <<"a","b","c","d","e","f","g","h","i","j","k","l","m",
    "n","o","p","q","r","s","t","u","v","w","x","y","z">>

DigitChars == <<"0","1","2","3","4","5","6","7","8","9">>

Range(f) == {f[i] : i \in DOMAIN f}

Digits == Range(DigitChars)

UpperLetters == Range(UpperAlpha)

LowerLetters == Range(LowerAlpha)

\* the characters of the model in ASCII order
AsciiOrder ==
  <<"\t", "\n", "\r", " ", "!", "'", "(", ")", "-", ".">> \o DigitChars
    \o <<":">> \o UpperAlpha \o <<"_">> \o LowerAlpha

Chars == Range(AsciiOrder)

\* ord(c), up to the gaps between the characters of the model
Ord == [c \in Chars |-> CHOOSE i \in 1..Len(AsciiOrder) : AsciiOrder[i] = c]

IsDigit(c) == c \in Digits

IsUpper(c) == c \in UpperLetters

IsLowerLetter(c) == c \in LowerLetters

IsSpace(c) == c \in {" ", "\n", "\t", "\r"}

\* str.lower() on one character
ToLower ==
  [c \in Chars |->
     IF c \in UpperLetters
       THEN LowerAlpha[CHOOSE i \in 1..26 : UpperAlpha[i] = c]
       ELSE c]

\* str.lower()
lower(s) == [i \in 1..Len(s) |-> ToLower[s[i]]]

\* str.strip()
strip(s) ==
  LET keep == {i \in 1..Len(s) : ~IsSpace(s[i])}
  IN  IF keep = {} THEN <<>>
      ELSE LET lo == CHOOSE i \in keep : \A j \in keep : i <= j
               hi == CHOOSE i \in keep : \A j \in keep : j <= i
           IN  SubSeq(s, lo, hi)

\* str.split(sep) for a one-character separator
RECURSIVE Split(_, _)
Split(s, sep) ==
  IF \A i \in 1..Len(s) : s[i] # sep
    THEN <<s>>
    ELSE LET i == CHOOSE k \in 1..Len(s) :
                    s[k] = sep /\ \A j \in 1..(k-1) : s[j] # sep
         IN  <<SubSeq(s, 1, i-1)>> \o Split(SubSeq(s, i+1, Len(s)), sep)

\* str.startswith(prefix)
startswith(s, prefix) ==
  Len(s) >= Len(prefix) /\ SubSeq(s, 1, Len(prefix)) = prefix

\* "needle in s" for strings
Contains(s, needle) ==
  \E i \in 1..(Len(s) - Len(needle) + 1) :
     SubSeq(s, i, i + Len(needle) - 1) = needle

\* string literals of release_assets.py
S_pakfu     == <<"p","a","k","f","u">>
S_windows   == <<"w","i","n","d","o","w","s">>
S_macos     == <<"m","a","c","o","s">>
S_linux     == <<"l","i","n","u","x">>
S_portable  == <<"p","o","r","t","a","b","l","e">>
S_installer == <<"i","n","s","t","a","l","l","e","r">>
S_zip       == <<"z","i","p">>
S_msi       == <<"m","s","i">>
S_pkg       == <<"p","k","g">>
S_targz     == <<"t","a","r",".","g","z">>
S_AppImage  == <<"A","p","p","I","m","a","g","e">>
S_x86_64    == <<"x","8","6","_","6","4">>
S_amd64     == <<"a","m","d","6","4">>
S_x64       == <<"x","6","4">>
S_aarch64   == <<"a","a","r","c","h","6","4">>
S_arm64     == <<"a","r","m","6","4">>

(***************************************************************************)
(* release_assets.py                                                       *)
(***************************************************************************)
SUPPORTED_PLATFORMS == <<S_windows, S_macos, S_linux>>

SUPPORTED_KINDS == <<S_portable, S_installer>>

EXPECTED_EXTENSIONS ==
  [key \in {<<p, k>> : p \in Range(SUPPORTED_PLATFORMS), k \in Range(SUPPORTED_KINDS)} |->
     CASE key = <<S_windows, S_portable>>  -> S_zip
       [] key = <<S_windows, S_installer>> -> S_msi
       [] key = <<S_macos, S_portable>>    -> S_zip
       [] key = <<S_macos, S_installer>>   -> S_pkg
       [] key = <<S_linux, S_portable>>    -> S_targz
       [] key = <<S_linux, S_installer>>   -> S_AppImage]

\* the result of a raise ValueError
ValueError == <<"!", "V", "a", "l", "u", "e", "E", "r", "r", "o", "r">>

NoAsset == [ok |-> FALSE]

NoMatch == [matched |-> FALSE]

normalize_arch(raw_arch) ==
  LET value == lower(strip(raw_arch))
  IN  IF value \in {S_x86_64, S_amd64, S_x64} THEN S_x64
      ELSE IF value \in {S_aarch64, S_arm64} THEN S_arm64
      ELSE value

expected_extension(platform, kind) ==
  LET key == <<lower(platform), lower(kind)>>
  IN  IF key \in DOMAIN EXPECTED_EXTENSIONS
        THEN EXPECTED_EXTENSIONS[key]
        ELSE ValueError

is_installable(platform, kind, extension) ==
  IF lower(kind) # S_installer
    THEN FALSE
    ELSE lower(extension) = lower(expected_extension(platform, kind))

expected_filename(version, platform, arch, kind) ==
  LET normalized_platform == lower(platform)
      normalized_arch     == normalize_arch(arch)
      normalized_kind     == lower(kind)
      ext == expected_extension(normalized_platform, normalized_kind)
  IN  IF ext = ValueError THEN ValueError
      ELSE S_pakfu \o <<"-">> \o version \o <<"-">> \o normalized_platform
             \o <<"-">> \o normalized_arch \o <<"-">> \o normalized_kind
             \o <<".">> \o ext

\* \d+(?:\.\d+){2,}
IsAssetVersion(s) ==
  LET segs == Split(s, ".")
  IN  /\ Len(segs) >= 3
      /\ \A i \in 1..Len(segs) :
           Len(segs[i]) >= 1 /\ \A j \in 1..Len(segs[i]) : IsDigit(segs[i][j])

\* the arch class written [a-z0-9]+, without the underscore
IsArchToken_NoUnderscore(s) ==
  /\ Len(s) >= 1
  /\ \A i \in 1..Len(s) : IsLowerLetter(ToLower[s[i]]) \/ IsDigit(s[i])

\* [a-z0-9_]+ under re.IGNORECASE
IsArchToken(s) ==
  /\ Len(s) >= 1
  /\ \A i \in 1..Len(s) :
       IsLowerLetter(ToLower[s[i]]) \/ IsDigit(s[i]) \/ s[i] = "_"

\* [a-z0-9.]+ under re.IGNORECASE
IsExtToken(s) ==
  /\ Len(s) >= 1
  /\ \A i \in 1..Len(s) :
       IsLowerLetter(ToLower[s[i]]) \/ IsDigit(s[i]) \/ s[i] = "."

\* ASSET_RE.match(filename): the named groups, or NoMatch.  None of the
\* groups before <ext> can hold "-", and <kind> cannot hold ".", so the match
\* is the split at the four "-" and at the first "." of the last field.  "$"
\* also matches just before one trailing newline.
ASSET_RE(filename) ==
  LET n == Len(filename)
      s == IF n >= 1 /\ filename[n] = "\n" THEN SubSeq(filename, 1, n-1) ELSE filename
      f == Split(s, "-")
  IN  IF Len(f) # 5 THEN NoMatch
      ELSE LET tail == Split(f[5], ".")
               kind == tail[1]
               ext  == SubSeq(f[5], Len(kind) + 2, Len(f[5]))
           IN  IF /\ lower(f[1]) = S_pakfu
                  /\ IsAssetVersion(f[2])
                  /\ lower(f[3]) \in Range(SUPPORTED_PLATFORMS)
                  /\ IsArchToken(f[4])
                  /\ Len(tail) >= 2
                  /\ lower(kind) \in Range(SUPPORTED_KINDS)
                  /\ IsExtToken(ext)
                 THEN [matched |-> TRUE, version |-> f[2], platform |-> f[3],
                       arch |-> f[4], kind |-> kind, ext |-> ext]
                 ELSE NoMatch

parse_asset_name(filename) ==
  LET match == ASSET_RE(filename)
  IN  IF ~match.matched THEN NoAsset
      ELSE LET version   == match.version
               platform  == lower(match.platform)
               arch      == normalize_arch(match.arch)
               kind      == lower(match.kind)
               extension == match.ext
               expected  == expected_extension(platform, kind)
           IN  IF lower(extension) # lower(expected) THEN NoAsset
               ELSE [ok |-> TRUE,
                     filename    |-> filename,
                     version     |-> version,
                     platform    |-> platform,
                     arch        |-> arch,
                     kind        |-> kind,
                     extension   |-> extension,
                     installable |-> is_installable(platform, kind, extension)]

(***************************************************************************)
(* next_version.py: version grammar                                        *)
(***************************************************************************)
\* int(text) for a non-empty string of decimal digits
RECURSIVE int(_)
int(digits) ==
  IF Len(digits) = 0 THEN 0
  ELSE 10 * int(SubSeq(digits, 1, Len(digits) - 1))
         + (Ord[digits[Len(digits)]] - Ord["0"])

\* str(n) for a non-negative integer
RECURSIVE str(_)
str(n) ==
  IF n < 10 THEN <<DigitChars[n + 1]>>
  ELSE str(n \div 10) \o <<DigitChars[(n % 10) + 1]>>

IsDigits(s) == Len(s) >= 1 /\ \A i \in 1..Len(s) : IsDigit(s[i])

\* VERSION_RE.match(text): the groups that are not None, or <<>> for no match
VERSION_RE(text) ==
  LET body == IF Len(text) >= 1 /\ text[1] = "v" THEN Tail(text) ELSE text
      segs == Split(body, ".")
  IN  IF Len(segs) \in 1..4 /\ \A i \in 1..Len(segs) : IsDigits(segs[i])
        THEN segs
        ELSE <<>>

\* parse_version: the list of integers, or <<>> for None
parse_version(text) ==
  LET groups == VERSION_RE(strip(text))
      P[i \in 0..Len(groups)] ==
        IF i = 0 THEN <<>> ELSE Append(P[i-1], int(groups[i]))
      parts == P[Len(groups)]
  IN  IF groups = <<>> THEN <<>>
      ELSE IF Len(parts) < 3 THEN <<>> ELSE parts

RECURSIVE format_version(_)
format_version(parts) ==
  IF Len(parts) = 0 THEN <<>>
  ELSE IF Len(parts) = 1 THEN str(parts[1])
  ELSE str(parts[1]) \o <<".">> \o format_version(Tail(parts))

\* tuple(a) < tuple(b) in Python
RECURSIVE TupleLess(_, _)
TupleLess(a, b) ==
  IF Len(b) = 0 THEN FALSE
  ELSE IF Len(a) = 0 THEN TRUE
  ELSE IF a[1] # b[1] THEN a[1] < b[1]
  ELSE TupleLess(Tail(a), Tail(b))

(***************************************************************************)
(* Ordering of strings (git's refname order, sorted() on directory names). *)
(***************************************************************************)
RECURSIVE StrLess(_, _)
StrLess(a, b) ==
  IF Len(b) = 0 THEN FALSE
  ELSE IF Len(a) = 0 THEN TRUE
  ELSE IF a[1] # b[1] THEN Ord[a[1]] < Ord[b[1]]
  ELSE StrLess(Tail(a), Tail(b))

\* sorted(S) for a set of strings
RECURSIVE sorted(_)
sorted(S) ==
  IF S = {} THEN <<>>
  ELSE LET m == CHOOSE x \in S : \A y \in S \ {x} : StrLess(x, y)
       IN  <<m>> \o sorted(S \ {m})

(***************************************************************************)
(* next_version.py: version resolution                                     *)
(***************************************************************************)
S_BREAKING_CHANGE == <<"B","R","E","A","K","I","N","G"," ","C","H","A","N","G","E">>
S_feat == <<"f","e","a","t">>

\* \w
IsWord(c) == IsLowerLetter(ToLower[c]) \/ IsDigit(c) \/ c = "_"

StartsWithAt(s, i, lit) ==
  i + Len(lit) - 1 <= Len(s) /\ SubSeq(s, i, i + Len(lit) - 1) = lit

\* (\(.+\))? followed by the literal lit, matched from position i
OptScopeThen(s, i, lit) ==
  \/ StartsWithAt(s, i, lit)
  \/ /\ i <= Len(s)
     /\ s[i] = "("
     /\ \E j \in (i+2)..Len(s) :
          /\ s[j] = ")"
          /\ \A k \in (i+1)..(j-1) : s[k] # "\n"
          /\ StartsWithAt(s, j + 1, lit)

\* FEATURE_RE.match(subject):  ^feat(\(.+\))?:  under re.IGNORECASE
FEATURE_RE(subject) ==
  /\ Len(subject) >= 4
  /\ lower(SubSeq(subject, 1, 4)) = S_feat
  /\ OptScopeThen(subject, 5, <<":">>)

\* BREAKING_RE.match(subject):  ^\w+(\(.+\))?!:
BREAKING_RE(subject) ==
  \E n \in 1..Len(subject) :
     /\ \A k \in 1..n : IsWord(subject[k])
     /\ OptScopeThen(subject, n + 1, <<"!", ":">>)

\* list_tags: git tag --list "v*" in refname order, kept when parse_version
\* accepts the name; a sequence of <<tag, parts>>
list_tags(tagNames) ==
  LET tags_raw == sorted({t \in tagNames : Len(t) >= 1 /\ t[1] = "v"})
      F[i \in 0..Len(tags_raw)] ==
        IF i = 0 THEN <<>>
        ELSE LET parts == parse_version(tags_raw[i])
             IN  IF parts # <<>> THEN Append(F[i-1], <<tags_raw[i], parts>>)
                 ELSE F[i-1]
  IN  F[Len(tags_raw)]

\* latest_stable_tag taking the minimum
latest_stable_tag_Lowest(tags) ==
  LET F[i \in 0..Len(tags)] ==
        IF i = 0 THEN <<>>
        ELSE IF Len(tags[i][2]) = 3 THEN Append(F[i-1], tags[i]) ELSE F[i-1]
      stable == F[Len(tags)]
  IN  IF stable = <<>> THEN <<>>
      ELSE stable[CHOOSE i \in 1..Len(stable) :
                    /\ \A j \in 1..Len(stable) : ~TupleLess(stable[j][2], stable[i][2])
                    /\ \A j \in 1..(i-1) : TupleLess(stable[i][2], stable[j][2])]

\* latest_stable_tag: the first maximum in list order, or <<>> for None
latest_stable_tag(tags) ==
  LET F[i \in 0..Len(tags)] ==
        IF i = 0 THEN <<>>
        ELSE IF Len(tags[i][2]) = 3 THEN Append(F[i-1], tags[i]) ELSE F[i-1]
      stable == F[Len(tags)]
  IN  IF stable = <<>> THEN <<>>
      ELSE stable[CHOOSE i \in 1..Len(stable) :
                    /\ \A j \in 1..Len(stable) : ~TupleLess(stable[i][2], stable[j][2])
                    /\ \A j \in 1..(i-1) : TupleLess(stable[j][2], stable[i][2])]

S_Merge == <<"M","e","r","g","e"," ">>

S_chore_release == <<"c","h","o","r","e","(","r","e","l","e","a","s","e",")",":">>

\* update_changelog.py, normalize_subject: the subjects that contribute nothing
normalize_subject_skips(subject) ==
  startswith(subject, S_Merge) \/ startswith(subject, S_chore_release)

\* classify_bump with "bump = minor if FEATURE_RE else patch" in the loop
classify_bump_LastWins(commits) ==
  LET F[i \in 0..Len(commits)] ==
        IF i = 0 THEN "patch"
        ELSE LET bump == F[i-1]
             IN  IF bump = "major" THEN "major"
                 ELSE IF BREAKING_RE(commits[i].subject)
                           \/ Contains(commits[i].body, S_BREAKING_CHANGE) THEN "major"
                 ELSE IF FEATURE_RE(commits[i].subject) THEN "minor"
                 ELSE "patch"
  IN  IF Len(commits) = 0 THEN "None" ELSE F[Len(commits)]

\* classify_bump: "None" for no commits, else the loop with its early return
classify_bump(commits) ==
  LET F[i \in 0..Len(commits)] ==
        \* the value of bump after i commits, "major" once the loop returned
        IF i = 0 THEN "patch"
        ELSE LET bump == F[i-1]
             IN  IF bump = "major" THEN "major"
                 ELSE IF BREAKING_RE(commits[i].subject)
                           \/ Contains(commits[i].body, S_BREAKING_CHANGE) THEN "major"
                 ELSE IF FEATURE_RE(commits[i].subject) THEN "minor"
                 ELSE bump
  IN  IF Len(commits) = 0 THEN "None" ELSE F[Len(commits)]

\* bump_version without the branch for major = 0
bump_version_NoPin(base, bump) ==
  LET major == base[1]
      minor == base[2]
      patch == base[3]
  IN  IF bump = "major" THEN <<major + 1, 0, 0>>
      ELSE IF bump = "minor" THEN <<major, minor + 1, 0>>
      ELSE <<major, minor, patch + 1>>

bump_version(base, bump) ==
  LET major == base[1]
      minor == base[2]
      patch == base[3]
  IN  IF bump = "major"
        THEN IF major = 0 THEN <<major, minor + 1, 0>>
                          ELSE <<major + 1, 0, 0>>
      ELSE IF bump = "minor" THEN <<major, minor + 1, 0>>
      ELSE <<major, minor, patch + 1>>

\* next_build_for_base without the comparison of parts[:3] with base
next_build_for_base_AnyBase(tags, base) ==
  LET F[i \in 0..Len(tags)] ==
        IF i = 0 THEN 0
        ELSE LET parts     == tags[i][2]
                 max_build == F[i-1]
             IN  IF Len(parts) # 4 THEN max_build
                 ELSE IF parts[4] > max_build THEN parts[4] ELSE max_build
  IN  F[Len(tags)] + 1

next_build_for_base(tags, base) ==
  LET F[i \in 0..Len(tags)] ==
        IF i = 0 THEN 0
        ELSE LET parts     == tags[i][2]
                 max_build == F[i-1]
             IN  IF Len(parts) # 4 THEN max_build
                 ELSE IF SubSeq(parts, 1, 3) = base
                        THEN IF parts[4] > max_build THEN parts[4] ELSE max_build
                 ELSE max_build
  IN  F[Len(tags)] + 1

\* VERSION is absent from the repository
NoFile == <<"<no file>">>

\* read_version_file: parts[:3], or the error raised
read_version_file(content) ==
  IF content = NoFile THEN [error |-> "FileNotFoundError"]
  ELSE LET raw   == strip(content)
           parts == parse_version(raw)
       IN  IF parts = <<>> THEN [error |-> "VersionNotNumeric"]
           ELSE [error |-> "none", parts |-> SubSeq(parts, 1, 3)]

\* commits_since: git log <base_tag>..HEAD (or HEAD), newest commit first;
\* log is the linear history, oldest first, and at the number of commits the
\* tag's revision has behind it
commits_since(log, at) ==
  LET n == Len(log) - at
      F[i \in 0..n] ==
        IF i = 0 THEN <<>>
        ELSE Append(F[i-1], [subject |-> strip(log[Len(log) + 1 - i].subject),
                             body    |-> log[Len(log) + 1 - i].body])
  IN  F[n]

\* compute_next_version, with the locals the outcome depends on
compute_next_version(tagRefs, log, versionText, channel, allow_empty) ==
  LET bumped(tags, base_tag, base_version, commits, bump, next_base) ==
        [status |-> "ok", base_tag |-> base_tag,
         base_version |-> base_version, commits |-> commits,
         bump |-> bump, next_base |-> next_base,
         version_parts |->
           IF channel # "stable"
             THEN Append(next_base, next_build_for_base(tags, next_base))
             ELSE next_base]
      classified(tags, base_tag, base_version, commits, bump) ==
        IF bump = "None" /\ ~allow_empty
          THEN [status |-> "NoCommitsFound", base_tag |-> base_tag,
                base_version |-> base_version, commits |-> commits]
        ELSE IF bump = "None"
          THEN bumped(tags, base_tag, base_version, commits, "patch",
                      bump_version(base_version, "patch"))
        ELSE bumped(tags, base_tag, base_version, commits, bump,
                    bump_version(base_version, bump))
      since(tags, base_tag, base_version, commits) ==
        classified(tags, base_tag, base_version, commits, classify_bump(commits))
      based(tags, stable_tag, fromFile) ==
        IF stable_tag # <<>>
          THEN since(tags, stable_tag[1], stable_tag[2],
                     commits_since(log, (CHOOSE t \in tagRefs : t.name = stable_tag[1]).at))
        ELSE IF fromFile.error # "none"
          THEN [status |-> fromFile.error]
        ELSE since(tags, <<>>, fromFile.parts, commits_since(log, 0))
      listed(tags) == based(tags, latest_stable_tag(tags), read_version_file(versionText))
  IN  listed(list_tags({t.name : t \in tagRefs}))

(***************************************************************************)
(* State.                                                                  *)
(***************************************************************************)
VARIABLES
  gitTags,      \* the repository's tags: records [name, at]
  history,      \* the commits up to HEAD, oldest first
  versionFile,  \* the text of VERSION, or NoFile
  run,          \* the last invocation of next_version.py and its outcome
  invocations,  \* how many invocations ran
  codec,        \* the last use of the file-name codec
  dist,         \* the distribution directory: records [name, is_file, content]
  manifest,     \* the payload of the last release_manifest.py run
  verdict,      \* the outcome of the last validate_release_assets.py run
  parser        \* the last use of parse_version / format_version on its own

resolverVars == <<gitTags, history, versionFile, run, invocations>>

distVars == <<dist, manifest, verdict>>

vars == <<gitTags, history, versionFile, run, invocations, codec, dist, manifest, verdict,
         parser>>

(***************************************************************************)
(* Bounds and input pools.                                                 *)
(***************************************************************************)
MaxInitTags == 2

MaxCommits == 2

MaxRuns == 2

MaxTags == 3

T_v1_4_0   == <<"v","1",".","4",".","0">>
T_v0_3_1   == <<"v","0",".","3",".","1">>
T_v1_5_0_1 == <<"v","1",".","5",".","0",".","1">>
T_1_9_0    == <<"1",".","9",".","0">>

TagPool == {T_v1_4_0, T_v0_3_1, T_v1_5_0_1, T_1_9_0}

DefaultVersionFile == <<"0",".","9",".","9","\n">>

VersionFilePool ==
  { DefaultVersionFile,
    <<"v","1",".","0",".","0",".","7","\n">>,
    <<"1",".","2","\n">>,
    NoFile }

Subj_fix   == <<"f","i","x",":"," ","n","u","l","l"," ","c","h","e","c","k">>
Subj_feat  == <<"f","e","a","t",":"," ","a","d","d"," ","i","m","p","o","r","t","e","r">>
Subj_break == <<"r","e","f","a","c","t","o","r","(","a","p","i",")","!",":"," ","d","r","o","p"," ","v","1">>
Subj_merge == <<"M","e","r","g","e"," ","b","r","a","n","c","h"," ","'","d","e","v","'">>
Subj_plain == <<"u","p","d","a","t","e"," ","r","e","a","d","m","e">>
Subj_chore == <<"c","h","o","r","e","(","r","e","l","e","a","s","e",")",":"," ","1",".","5",".","0">>
Body_breaking == <<"B","R","E","A","K","I","N","G"," ","C","H","A","N","G","E",":"," ","a","p","i"," ","r","e","m","o","v","e","d">>

CommitPool ==
  { [subject |-> Subj_fix,   body |-> <<>>],
    [subject |-> Subj_feat,  body |-> <<>>],
    [subject |-> Subj_break, body |-> <<>>],
    [subject |-> Subj_plain, body |-> Body_breaking],
    [subject |-> Subj_merge, body |-> <<>>],
    [subject |-> Subj_chore, body |-> Body_breaking] }

Channels == {"stable", "beta", "dev"}

(***************************************************************************)
(* Version resolution: next_version.py run against a repository.           *)
(***************************************************************************)
InitResolver ==
  /\ \E names \in SUBSET TagPool :
       /\ Cardinality(names) <= MaxInitTags
       /\ gitTags = {[name |-> n, at |-> 0] : n \in names}
  /\ history = <<>>
  /\ versionFile \in VersionFilePool
  \* VERSION is read only while no stable tag exists, and tags are never deleted
  /\ (latest_stable_tag(list_tags({t.name : t \in gitTags})) # <<>>
        => versionFile = DefaultVersionFile)
  /\ run = [status |-> "init"]
  /\ invocations = 0

\* git commit (commits after the last invocation the bound allows are not
\* read by anything)
Commit(c) ==
  /\ Len(history) < MaxCommits
  /\ invocations < MaxRuns
  /\ history' = Append(history, c)
  /\ UNCHANGED <<gitTags, versionFile, run, invocations, codec, dist, manifest, verdict, parser>>

\* main() writing the base version it started from
Resolve_WriteBase(channel, allow_empty) ==
  /\ invocations < MaxRuns
  /\ invocations' = invocations + 1
  /\ LET print(out, args, version) ==
           /\ run' = out @@ args @@ [printed |-> version]
           /\ versionFile' = IF args.write
                               THEN format_version(out.base_version) \o <<"\n">>
                               ELSE versionFile
         main(out) ==
           \E write \in BOOLEAN :
             IF out.status = "ok"
               THEN print(out, [channel |-> channel, allow_empty |-> allow_empty,
                                write |-> write],
                          format_version(out.version_parts))
               ELSE /\ run' = out @@ [channel |-> channel, allow_empty |-> allow_empty,
                                      write |-> write]
                    /\ UNCHANGED versionFile
     IN  main(compute_next_version(gitTags, history, versionFile, channel, allow_empty))
  /\ UNCHANGED <<gitTags, history, codec, dist, manifest, verdict, parser>>

\* main() of next_version.py
Resolve(channel, allow_empty) ==
  /\ invocations < MaxRuns
  /\ invocations' = invocations + 1
  /\ LET print(out, args, version) ==
           /\ run' = out @@ args @@ [printed |-> version]
           /\ versionFile' = IF args.write THEN version \o <<"\n">> ELSE versionFile
         main(out) ==
           \E write \in BOOLEAN :
             IF out.status = "ok"
               THEN print(out, [channel |-> channel, allow_empty |-> allow_empty,
                                write |-> write],
                          format_version(out.version_parts))
               ELSE /\ run' = out @@ [channel |-> channel, allow_empty |-> allow_empty,
                                      write |-> write]
                    /\ UNCHANGED versionFile
     IN  main(compute_next_version(gitTags, history, versionFile, channel, allow_empty))
  /\ UNCHANGED <<gitTags, history, codec, dist, manifest, verdict, parser>>

\* git tag v<version> at HEAD, for the version the last invocation printed
TagRelease ==
  /\ run.status = "ok"
  /\ Cardinality(gitTags) < MaxTags
  /\ LET name == <<"v">> \o run.printed
     IN  /\ \A t \in gitTags : t.name # name
         /\ gitTags' = gitTags \cup {[name |-> name, at |-> Len(history)]}
  /\ UNCHANGED <<history, versionFile, run, invocations, codec, dist, manifest, verdict, parser>>

NextResolver ==
  \/ \E c \in CommitPool : Commit(c)
  \/ \E channel \in Channels, allow_empty \in BOOLEAN : Resolve(channel, allow_empty)
  \/ TagRelease

(***************************************************************************)
(* The file-name codec used on its own: encode then decode, or decode a    *)
(* name found in a directory.                                              *)
(***************************************************************************)
V_1_5_0     == <<"1",".","5",".","0">>
V_1_4_0     == <<"1",".","4",".","0">>
V_0_10_2    == <<"0",".","1","0",".","2">>
V_1_5_0_1   == <<"1",".","5",".","0",".","1">>
V_1_2_3_4_5 == <<"1",".","2",".","3",".","4",".","5">>
V_1_5       == <<"1",".","5">>
V_1_5_x     == <<"1",".","5",".","x">>

\* version strings of 3 or more numeric segments
EncodeVersions == {V_1_5_0, V_0_10_2, V_1_5_0_1, V_1_2_3_4_5}

EncodePlatforms ==
  { S_windows, S_macos, S_linux,
    <<"L","i","n","u","x">>, <<"W","I","N","D","O","W","S">>, <<"m","a","c","O","S">>,
    <<"f","r","e","e","b","s","d">> }

EncodeKinds ==
  { S_portable, S_installer,
    <<"I","n","s","t","a","l","l","e","r">>, <<"P","O","R","T","A","B","L","E">>,
    <<"a","r","c","h","i","v","e">> }

EncodeArchs ==
  { S_amd64, S_x86_64, S_x64, S_aarch64, S_arm64,
    <<"A","M","D","6","4">>, <<"X","8","6","_","6","4">>, <<"X","6","4">>,
    <<"A","A","r","c","h","6","4">>, <<"A","R","M","6","4">>,
    <<"r","i","s","c","v","6","4">>, <<"P","P","C","_","6","4","l","e">> }

MkName(prefix, version, platform, arch, kind, ext) ==
  prefix \o <<"-">> \o version \o <<"-">> \o platform \o <<"-">> \o arch
    \o <<"-">> \o kind \o <<".">> \o ext

\* names a directory may hold, well-formed or not
NamePool ==
  { MkName(prefix, version, platform, arch, kind, ext) :
      prefix   \in {S_pakfu, <<"P","a","k","F","u">>, <<"p","a","k">>},
      version  \in {V_1_5_0, V_1_5, V_1_5_0_1, V_1_2_3_4_5, V_1_5_x},
      platform \in {S_linux, <<"W","i","n","d","o","w","s">>, <<"b","s","d">>},
      arch     \in {S_x64, <<"A","M","D","6","4">>, <<"a","r","m","-","6","4">>},
      kind     \in {S_portable, <<"I","n","s","t","a","l","l","e","r">>, <<"s","e","t","u","p">>},
      ext      \in {S_zip, <<"Z","I","P">>, S_targz, S_AppImage,
                    <<"a","p","p","i","m","a","g","e">>, S_msi, <<"M","s","i">>,
                    <<"e","x","e">>, <<"z","i","p","\n">>} }

InitCodec == codec = [pc |-> "idle"]

\* expected_filename(version, platform, arch, kind)
Encode(v, p, a, k) ==
  /\ codec.pc = "idle"
  /\ LET name == expected_filename(v, p, a, k)
     IN  codec' = IF name = ValueError
                    THEN [pc |-> "ValueError", v |-> v, p |-> p, a |-> a, k |-> k]
                    ELSE [pc |-> "encoded", v |-> v, p |-> p, a |-> a, k |-> k,
                          filename |-> name]
  /\ UNCHANGED <<gitTags, history, versionFile, run, invocations, dist, manifest, verdict, parser>>

\* parse_asset_name of the name just encoded
Decode ==
  /\ codec.pc = "encoded"
  /\ codec' = [codec EXCEPT !.pc = "decoded"] @@ [asset |-> parse_asset_name(codec.filename)]
  /\ UNCHANGED <<gitTags, history, versionFile, run, invocations, dist, manifest, verdict, parser>>

\* parse_asset_name of a name found on disk
DecodeName(f) ==
  /\ codec.pc = "idle"
  /\ codec' = [pc |-> "parsed", filename |-> f, asset |-> parse_asset_name(f)]
  /\ UNCHANGED <<gitTags, history, versionFile, run, invocations, dist, manifest, verdict, parser>>

NextCodec ==
  \/ \E v \in EncodeVersions, p \in EncodePlatforms, a \in EncodeArchs, k \in EncodeKinds :
       Encode(v, p, a, k)
  \/ Decode
  \/ \E f \in NamePool : DecodeName(f)

(***************************************************************************)
(* release_manifest.py and validate_release_assets.py over a directory.    *)
(***************************************************************************)
\* the distribution directory does not exist
NoDir == {[name |-> <<>>, is_file |-> FALSE, content |-> <<>>]}

\* sorted(dist_dir.iterdir()): the entries in order of their names
iterdir_sorted(entries) ==
  LET names == sorted({e.name : e \in entries})
  IN  [i \in 1..Len(names) |-> CHOOSE e \in entries : e.name = names[i]]

\* sha256_file: the digest stands for the bytes it was computed from
sha256_file(content) == <<"sha256", content>>

\* the ignore test of main() without the version comparison
is_ignored_AnyVersion(parsed, version) == ~parsed.ok

\* "not parsed or parsed.version != args.version"
is_ignored(parsed, version) == ~parsed.ok \/ parsed.version # version

\* main() of release_manifest.py: the payload written, without its timestamp
release_manifest_main(entries, version) ==
  LET entry(payload, path, parsed) ==
        IF ~path.is_file THEN payload
        ELSE IF is_ignored(parsed, version)
          THEN [payload EXCEPT !.ignored = Append(@, path.name)]
        ELSE [payload EXCEPT !.assets = Append(@,
                [name        |-> path.name,
                 platform    |-> parsed.platform,
                 arch        |-> parsed.arch,
                 kind        |-> parsed.kind,
                 extension   |-> parsed.extension,
                 installable |-> parsed.installable,
                 size        |-> Len(path.content),
                 sha256      |-> sha256_file(path.content)])]
      loop(paths) ==
        LET F[i \in 0..Len(paths)] ==
              IF i = 0 THEN [assets |-> <<>>, ignored |-> <<>>]
              ELSE entry(F[i-1], paths[i], parse_asset_name(paths[i].name))
        IN  F[Len(paths)]
      write(payload) ==
        [status  |-> "written",
         product |-> S_pakfu,
         version |-> version,
         distribution_policy |->
           [platform \in Range(SUPPORTED_PLATFORMS) |->
              [preferred_kind |-> S_installer, fallback_kind |-> S_portable]],
         assets        |-> payload.assets,
         ignored_files |-> payload.ignored]
  IN  IF entries = NoDir THEN [status |-> "RuntimeError"]
      ELSE write(loop(iterdir_sorted(entries)))

collect_assets(entries) ==
  LET entry(assets, path, parsed) ==
        IF path.is_file /\ parsed.ok THEN Append(assets, parsed) ELSE assets
      loop(paths) ==
        LET F[i \in 0..Len(paths)] ==
              IF i = 0 THEN <<>>
              ELSE entry(F[i-1], paths[i], parse_asset_name(paths[i].name))
        IN  F[Len(paths)]
  IN  loop(iterdir_sorted(entries))

BothKinds == {S_portable, S_installer}

\* the keys of by_platform_arch in insertion order
by_platform_arch_keys(filtered) ==
  LET K[i \in 0..Len(filtered)] ==
        IF i = 0 THEN <<>>
        ELSE LET seen == K[i-1]
                 key  == <<filtered[i].platform, filtered[i].arch>>
             IN  IF key \in Range(seen) THEN seen ELSE Append(seen, key)
  IN  K[Len(filtered)]

\* by_platform_arch[key]
by_platform_arch(filtered, key) ==
  {filtered[i].kind :
     i \in {j \in 1..Len(filtered) : <<filtered[j].platform, filtered[j].arch>> = key}}

\* the errors of the branch "if platform:"; an error message is modelled by
\* the fields it is formatted from
scoped_errors(filtered, version) ==
  LET keys == by_platform_arch_keys(filtered)
      E[i \in 0..Len(keys)] ==
        IF i = 0 THEN <<>>
        ELSE LET missing == BothKinds \ by_platform_arch(filtered, keys[i])
                 errors  == E[i-1]
             IN  IF missing # {}
                   THEN Append(errors,
                          [msg |-> "Missing packages", missing |-> sorted(missing),
                           platform |-> keys[i][1], arch |-> keys[i][2],
                           version |-> version])
                   ELSE errors
  IN  E[Len(keys)]

\* the completeness test taken over the platform's kinds of any architecture
platform_complete_AnyArch(platform_rows) == BothKinds \subseteq UNION platform_rows

\* any({"portable", "installer"}.issubset(kinds) for kinds in platform_rows)
platform_complete(platform_rows) ==
  \E kinds \in platform_rows : BothKinds \subseteq kinds

\* the loop over SUPPORTED_PLATFORMS stopping at the first error
unscoped_errors_FailFast(filtered, version) ==
  LET keys == by_platform_arch_keys(filtered)
      E[i \in 0..Len(SUPPORTED_PLATFORMS)] ==
        IF i = 0 THEN <<>>
        ELSE LET expected_platform == SUPPORTED_PLATFORMS[i]
                 errors == E[i-1]
                 platform_rows ==
                   {by_platform_arch(filtered, keys[j]) :
                      j \in {k \in 1..Len(keys) : keys[k][1] = expected_platform}}
             IN  IF errors # <<>> THEN errors
                 ELSE IF platform_rows = {}
                   THEN Append(errors,
                          [msg |-> "Missing all assets", platform |-> expected_platform,
                           version |-> version])
                 ELSE IF ~platform_complete(platform_rows)
                   THEN Append(errors,
                          [msg |-> "Not both kinds", platform |-> expected_platform,
                           version |-> version])
                 ELSE errors
  IN  E[Len(SUPPORTED_PLATFORMS)]

\* the errors of the branch "else:", one pass over SUPPORTED_PLATFORMS
unscoped_errors(filtered, version) ==
  LET keys == by_platform_arch_keys(filtered)
      E[i \in 0..Len(SUPPORTED_PLATFORMS)] ==
        IF i = 0 THEN <<>>
        ELSE LET expected_platform == SUPPORTED_PLATFORMS[i]
                 errors == E[i-1]
                 platform_rows ==
                   {by_platform_arch(filtered, keys[j]) :
                      j \in {k \in 1..Len(keys) : keys[k][1] = expected_platform}}
             IN  IF platform_rows = {}
                   THEN Append(errors,
                          [msg |-> "Missing all assets", platform |-> expected_platform,
                           version |-> version])
                 ELSE IF ~platform_complete(platform_rows)
                   THEN Append(errors,
                          [msg |-> "Not both kinds", platform |-> expected_platform,
                           version |-> version])
                 ELSE errors
  IN  E[Len(SUPPORTED_PLATFORMS)]

\* validate_assets; platform and arch are <<>> when not given
validate_assets(assets, version, platform, arch) ==
  LET check(filtered, normalized_arch, errors) ==
        IF filtered = <<>>
          THEN [ok |-> FALSE,
                errors |-> << [msg |-> "No release assets found", version |-> version,
                               platform |-> platform, arch |-> normalized_arch] >>]
          ELSE [ok |-> errors = <<>>, errors |-> errors]
      group(filtered, normalized_arch) ==
        check(filtered, normalized_arch,
              IF platform # <<>> THEN scoped_errors(filtered, version)
              ELSE unscoped_errors(filtered, version))
      filter(normalized_arch) ==
        LET F[i \in 0..Len(assets)] ==
              IF i = 0 THEN <<>>
              ELSE IF /\ assets[i].version = version
                      /\ (platform # <<>> => assets[i].platform = platform)
                      /\ (normalized_arch # <<>> => assets[i].arch = normalized_arch)
                THEN Append(F[i-1], assets[i])
                ELSE F[i-1]
        IN  group(F[Len(assets)], normalized_arch)
  IN  filter(IF arch # <<>> THEN normalize_arch(arch) ELSE <<>>)

\* main() of validate_release_assets.py
validate_main(entries, version, platform, arch) ==
  LET exit(assets, res) ==
        [exit |-> IF res.ok THEN 0 ELSE 1, status |-> "validated",
         assets |-> assets, ok |-> res.ok, errors |-> res.errors]
      validate(assets) == exit(assets, validate_assets(assets, version, platform, arch))
  IN  IF entries = NoDir THEN [exit |-> 1, status |-> "no directory"]
      ELSE validate(collect_assets(entries))

MaxFiles == 4

PackageBytes == <<80, 75>>

\* the packages of release 1.5.0, and what else lies around
DistPool ==
  { [name |-> MkName(S_pakfu, V_1_5_0, p, S_x64, k, EXPECTED_EXTENSIONS[<<p, k>>]),
     is_file |-> TRUE, content |-> PackageBytes] :
       p \in Range(SUPPORTED_PLATFORMS), k \in Range(SUPPORTED_KINDS) }
  \cup
  { [name |-> MkName(S_pakfu, V_1_5_0, S_macos, S_arm64, k, EXPECTED_EXTENSIONS[<<S_macos, k>>]),
     is_file |-> TRUE, content |-> PackageBytes] : k \in Range(SUPPORTED_KINDS) }
  \cup
  { [name |-> MkName(S_pakfu, V_1_4_0, S_linux, S_x64, S_portable, S_targz),
     is_file |-> TRUE, content |-> PackageBytes],
    [name |-> MkName(<<"P","a","k","F","u">>, V_1_5_0, S_windows, <<"A","M","D","6","4">>,
                     S_installer, <<"M","S","I">>),
     is_file |-> TRUE, content |-> PackageBytes],
    [name |-> MkName(S_pakfu, V_1_5_0, S_linux, S_x64, S_installer, <<"e","x","e">>),
     is_file |-> TRUE, content |-> <<>>],
    [name |-> <<"R","E","A","D","M","E">>, is_file |-> TRUE, content |-> <<>>],
    [name |-> MkName(S_pakfu, V_1_5_0, S_linux, S_arm64, S_portable, S_targz),
     is_file |-> FALSE, content |-> <<>>] }

DistVersions == {V_1_5_0, V_1_4_0}

ScopePlatforms == {<<>>} \cup Range(SUPPORTED_PLATFORMS)

ScopeArchs == {<<>>, S_x64, S_arm64, <<"A","M","D","6","4">>}

InitDist ==
  /\ \/ dist = NoDir
     \/ /\ dist \in SUBSET DistPool
        /\ Cardinality(dist) <= MaxFiles
  /\ manifest = [status |-> "none"]
  /\ verdict = [status |-> "none"]

NotRun == manifest.status = "none" /\ verdict.status = "none"

BuildManifest(version) ==
  /\ NotRun
  /\ manifest' = release_manifest_main(dist, version)
  /\ UNCHANGED <<gitTags, history, versionFile, run, invocations, codec, dist, verdict, parser>>

Validate(version, platform, arch) ==
  /\ NotRun
  /\ verdict' = validate_main(dist, version, platform, arch)
               @@ [version |-> version, platform |-> platform, arch |-> arch]
  /\ UNCHANGED <<gitTags, history, versionFile, run, invocations, codec, dist, manifest, parser>>

NextDist ==
  \/ \E version \in DistVersions : BuildManifest(version)
  \/ \E version \in DistVersions, platform \in ScopePlatforms, arch \in ScopeArchs :
       Validate(version, platform, arch)

(***************************************************************************)
(* parse_version and format_version used on their own.                     *)
(***************************************************************************)
\* what precedes the first segment of a text handed to parse_version
VersionPrefixes == {<<>>, <<"v">>, <<"V">>, <<"v","v">>, <<"-">>}

\* what follows the prefix: 1 to 5 segments, empty and non-numeric ones,
\* leading zeros and a second digit
VersionBodies ==
  { <<"1",".","2",".","3">>,
    <<"1",".","2",".","3",".","4">>,
    <<"0",".","1","0",".","2">>,
    <<"0","1",".","0",".","0","7">>,
    <<"1",".","2">>,
    <<"7">>,
    <<"1",".","2",".","3",".","4",".","5">>,
    <<"1",".",".","3">>,
    <<"1",".","2",".","3",".">>,
    <<"1",".","2",".","x">>,
    <<"1",".","2"," ",".","3">>,
    <<>> }

\* the whitespace around the text: <<before, after>>
VersionPadding == { <<<<>>, <<>>>>, <<<<" ">>, <<"\n">>>> }

TextPool ==
  { pad[1] \o prefix \o body \o pad[2] :
      prefix \in VersionPrefixes, body \in VersionBodies, pad \in VersionPadding }

SegmentValues == {0, 7, 10, 123}

\* the lists of 2 to 5 integers handed to format_version
PartsPool ==
  UNION { [1..n -> SegmentValues] : n \in 3..4 }
    \cup { <<1, 2>>, <<1, 2, 3, 4, 5>> }

IdleParser == parser = [pc |-> "idle"]

InitParser ==
  \/ \E text \in TextPool : parser = [pc |-> "text", text |-> text]
  \/ \E parts \in PartsPool : parser = [pc |-> "parts", parts |-> parts]

\* parse_version(text)
ParseText ==
  /\ parser.pc = "text"
  /\ parser' = [pc |-> "parsed", text |-> parser.text, result |-> parse_version(parser.text)]
  /\ UNCHANGED <<gitTags, history, versionFile, run, invocations, codec, dist, manifest,
                 verdict>>

\* format_version(parts)
FormatParts ==
  /\ parser.pc = "parts"
  /\ parser' = [pc |-> "formatted", parts |-> parser.parts,
                text |-> format_version(parser.parts)]
  /\ UNCHANGED <<gitTags, history, versionFile, run, invocations, codec, dist, manifest,
                 verdict>>

\* parse_version of the text format_version returned
ParseFormatted ==
  /\ parser.pc = "formatted"
  /\ parser' = [pc |-> "reparsed", parts |-> parser.parts, text |-> parser.text,
                result |-> parse_version(parser.text)]
  /\ UNCHANGED <<gitTags, history, versionFile, run, invocations, codec, dist, manifest,
                 verdict>>

NextParser == ParseText \/ FormatParts \/ ParseFormatted

(***************************************************************************)
(* Specifications.                                                         *)
(***************************************************************************)
Init == InitResolver /\ InitCodec /\ dist = {} /\ manifest = [status |-> "none"]
          /\ verdict = [status |-> "none"] /\ IdleParser

Next == NextResolver

Spec == Init /\ [][Next]_vars

IdleResolver ==
  /\ gitTags = {}
  /\ history = <<>>
  /\ versionFile = NoFile
  /\ run = [status |-> "init"]
  /\ invocations = 0

InitCodecOnly == IdleResolver /\ InitCodec /\ dist = {} /\ manifest = [status |-> "none"]
                   /\ verdict = [status |-> "none"] /\ IdleParser

SpecCodec == InitCodecOnly /\ [][NextCodec]_vars

InitDistOnly == IdleResolver /\ InitCodec /\ InitDist /\ IdleParser

SpecDist == InitDistOnly /\ [][NextDist]_vars

InitParserOnly == IdleResolver /\ InitCodec /\ dist = {} /\ manifest = [status |-> "none"]
                    /\ verdict = [status |-> "none"] /\ InitParser

SpecParser == InitParserOnly /\ [][NextParser]_vars

(***************************************************************************)
(* Properties of the file-name codec (checked under SpecCodec).            *)
(***************************************************************************)
\* C1: for every (platform, kind) of the extension table, every version of 3
\* or more numeric segments and every architecture token of letters, digits
\* and underscores, parse_asset_name(expected_filename(v, p, a, k)) is an
\* asset, never None, with version v, platform lower(p), arch
\* normalize_arch(a), kind lower(k), the table's extension for (p, k), and
\* installable exactly when k is installer.
C1_RoundTrip ==
  codec.pc = "decoded" =>
    /\ codec.asset.ok
    /\ codec.asset.version = codec.v
    /\ codec.asset.platform = lower(codec.p)
    /\ codec.asset.arch = normalize_arch(codec.a)
    /\ codec.asset.kind = lower(codec.k)
    /\ codec.asset.extension = EXPECTED_EXTENSIONS[<<lower(codec.p), lower(codec.k)>>]
    /\ codec.asset.installable = (lower(codec.k) = S_installer)

\* the spec's example: encode("1.5.0", "linux", "aarch64", "installer") is
\* pakfu-1.5.0-linux-arm64-installer.AppImage, and it decodes to its inputs
C1_Witness ==
  /\ codec.pc = "decoded"
  /\ codec.v = V_1_5_0 /\ codec.p = S_linux /\ codec.a = S_aarch64 /\ codec.k = S_installer
  /\ codec.filename = MkName(S_pakfu, V_1_5_0, S_linux, S_arm64, S_installer, S_AppImage)
  /\ codec.asset.ok
  /\ codec.asset.arch = S_arm64
  /\ codec.asset.installable

Decoded == codec.pc \in {"decoded", "parsed"} /\ codec.asset.ok

\* C9: every ReleaseAsset returned by parse_asset_name has an extension field
\* equal to the table's extension for its (platform, kind), spelled as the
\* table spells it, whatever the letter case of the file name; a name whose
\* extension is not the table's is rejected.
C9_ExtensionIsTableExtension ==
  Decoded =>
    codec.asset.extension = EXPECTED_EXTENSIONS[<<codec.asset.platform, codec.asset.kind>>]

NumSegments(version) == Len(Split(version, "."))

\* C10: every version string emitted has exactly 3 or exactly 4 numeric
\* segments: resolve prints 3 segments on the stable channel and 4 on beta and
\* dev, and the version of every ReleaseAsset returned by parse_asset_name has
\* 3 or 4, a file name with fewer than 3 or more than 4 being rejected.
C10_ThreeOrFourSegments ==
  /\ run.status = "ok" =>
       NumSegments(run.printed) = IF run.channel = "stable" THEN 3 ELSE 4
  /\ Decoded => NumSegments(codec.asset.version) \in {3, 4}

(***************************************************************************)
(* Properties of the manifest and of validation (checked under SpecDist).  *)
(***************************************************************************)
RegularFiles == {e \in dist : e.is_file}

AssetNames == {manifest.assets[i].name : i \in 1..Len(manifest.assets)}

IgnoredNames == Range(manifest.ignored_files)

\* C6: each regular file of the directory is in exactly one of the manifest's
\* assets and ignored_files lists: in assets exactly when its name decodes to
\* an asset whose version string equals the requested version, in
\* ignored_files when it fails to decode or decodes to another version; no
\* file is in both lists and none is dropped.
C6_ManifestPartition ==
  manifest.status = "written" =>
    /\ \A e \in RegularFiles :
         LET parsed == parse_asset_name(e.name)
             wanted == parsed.ok /\ parsed.version = manifest.version
         IN  /\ (e.name \in AssetNames) <=> wanted
             /\ (e.name \in IgnoredNames) <=> ~wanted
    /\ AssetNames \cap IgnoredNames = {}
    /\ AssetNames \cup IgnoredNames = {e.name : e \in RegularFiles}
    /\ Len(manifest.assets) + Len(manifest.ignored_files) = Cardinality(RegularFiles)

\* a manifest for 1.5.0 that lists an asset and ignores both a package of
\* 1.4.0 and a file that is no package
C6_Witness ==
  /\ manifest.status = "written"
  /\ manifest.version = V_1_5_0
  /\ Len(manifest.assets) >= 1
  /\ MkName(S_pakfu, V_1_4_0, S_linux, S_x64, S_portable, S_targz) \in IgnoredNames
  /\ <<"R","E","A","D","M","E">> \in IgnoredNames

\* the assets validate_assets keeps, as a set
Filtered ==
  {a \in Range(verdict.assets) :
     /\ a.version = verdict.version
     /\ (verdict.platform # <<>> => a.platform = verdict.platform)
     /\ (verdict.arch # <<>> => a.arch = normalize_arch(verdict.arch))}

KindsOf(platform, arch) ==
  {a.kind : a \in {b \in Filtered : b.platform = platform /\ b.arch = arch}}

\* the (platform, arch) groups that lack portable or installer
IncompleteGroups ==
  {g \in {<<a.platform, a.arch>> : a \in Filtered} : KindsOf(g[1], g[2]) # BothKinds}

\* the supported platforms without assets or without a group carrying both kinds
IncompletePlatforms ==
  {p \in Range(SUPPORTED_PLATFORMS) :
     ~\E a \in Filtered : a.platform = p /\ KindsOf(p, a.arch) = BothKinds}

Validated == verdict.status = "validated"

ExampleC7 ==
  { [name |-> MkName(S_pakfu, V_1_5_0, S_windows, S_x64, S_portable, S_zip),
     is_file |-> TRUE, content |-> PackageBytes],
    [name |-> MkName(S_pakfu, V_1_5_0, S_windows, S_x64, S_installer, S_msi),
     is_file |-> TRUE, content |-> PackageBytes],
    [name |-> MkName(S_pakfu, V_1_5_0, S_macos, S_x64, S_portable, S_zip),
     is_file |-> TRUE, content |-> PackageBytes],
    [name |-> MkName(S_pakfu, V_1_5_0, S_linux, S_x64, S_installer, S_AppImage),
     is_file |-> TRUE, content |-> PackageBytes] }

\* C7: validate_assets is exhaustive: when the filtered set is not empty it
\* returns one error for every violating unit in one call -- with a platform
\* given, one per observed (platform, arch) group that lacks portable or
\* installer; with none given, one per supported platform without assets or
\* without a group carrying both kinds -- and ok is true exactly when there is
\* no error.  For {windows: both, macos: portable only, linux: installer only}
\* and no platform scope the errors are exactly two, for macos and for linux.
C7_Exhaustive ==
  (Validated /\ Filtered # {}) =>
    LET errors == verdict.errors
    IN  /\ verdict.ok <=> errors = <<>>
        /\ verdict.platform # <<>> =>
             /\ {<<errors[i].platform, errors[i].arch>> : i \in 1..Len(errors)} = IncompleteGroups
             /\ Len(errors) = Cardinality(IncompleteGroups)
        /\ verdict.platform = <<>> =>
             /\ {errors[i].platform : i \in 1..Len(errors)} = IncompletePlatforms
             /\ Len(errors) = Cardinality(IncompletePlatforms)
        /\ (dist = ExampleC7 /\ verdict.platform = <<>> /\ verdict.version = V_1_5_0) =>
             /\ Len(errors) = 2
             /\ {errors[i].platform : i \in 1..Len(errors)} = {S_macos, S_linux}

\* the example of the spec, validated without a scope: two errors in one call
C7_Witness ==
  /\ Validated
  /\ dist = ExampleC7
  /\ verdict.platform = <<>> /\ verdict.arch = <<>> /\ verdict.version = V_1_5_0
  /\ ~verdict.ok
  /\ Len(verdict.errors) = 2

\* platform p has, among the assets kept, exactly one portable asset, of arch
\* x64, and exactly one installer asset, of arch arm64
SplitAcrossArchs(p) ==
  /\ {a.arch : a \in {b \in Filtered : b.platform = p /\ b.kind = S_portable}} = {S_x64}
  /\ {a.arch : a \in {b \in Filtered : b.platform = p /\ b.kind = S_installer}} = {S_arm64}

HasErrorFor(p) == \E i \in 1..Len(verdict.errors) : verdict.errors[i].platform = p

\* C8 as stated: with no platform scope, validate_assets reports no error for
\* a platform P whose only portable asset has arch x64 and whose only
\* installer asset has arch arm64.
C8_AcceptsSplitArchs ==
  \A p \in Range(SUPPORTED_PLATFORMS) :
    (Validated /\ verdict.platform = <<>> /\ SplitAcrossArchs(p)) => ~HasErrorFor(p)

\* C8 as amended: with no platform scope, validate_assets reports the error
\* "does not have both portable and installer assets" for a platform P whose
\* only portable asset has arch x64 and whose only installer asset has arch
\* arm64, and the release is not ok.
C8_RejectsSplitArchs ==
  \A p \in Range(SUPPORTED_PLATFORMS) :
    (Validated /\ verdict.platform = <<>> /\ SplitAcrossArchs(p)) =>
      /\ ~verdict.ok
      /\ \E i \in 1..Len(verdict.errors) :
           verdict.errors[i].platform = p /\ verdict.errors[i].msg = "Not both kinds"

\* macos with its portable package for x64 and its installer for arm64
C8_Witness ==
  /\ Validated
  /\ verdict.platform = <<>>
  /\ SplitAcrossArchs(S_macos)
  /\ HasErrorFor(S_macos)

(***************************************************************************)
(* Properties of version resolution (checked under Spec).  The tags are    *)
(* those list_tags sees: the names git lists for "v*" that parse_version   *)
(* accepts.                                                                *)
(***************************************************************************)
ListedVersions(tagRefs) ==
  {parse_version(t.name) : t \in {u \in tagRefs : u.name[1] = "v"}} \ {<<>>}

StableVersions(tagRefs) == {v \in ListedVersions(tagRefs) : Len(v) = 3}

BuildVersions(tagRefs) == {v \in ListedVersions(tagRefs) : Len(v) = 4}

MaxVersion(S) == CHOOSE m \in S : \A v \in S : ~TupleLess(m, v)

MaxNat(S) == CHOOSE m \in S : \A n \in S : n <= m

\* this step is an invocation of next_version.py that printed a version
Resolved == invocations' = invocations + 1 /\ run'.status = "ok"

\* C2: whenever compute_next_version succeeds, for every tag set, baseline,
\* commit set, severity and channel, the version returned is strictly greater
\* in tuple order than the base it was computed from -- the maximum 3-segment
\* tag when a stable tag exists and otherwise the first three segments of the
\* baseline file -- and so strictly greater than every existing stable tag.
C2_GreaterThanBase ==
  [][Resolved =>
       LET stable == StableVersions(gitTags)
           base   == IF stable # {} THEN MaxVersion(stable)
                     ELSE SubSeq(parse_version(versionFile), 1, 3)
       IN  /\ run'.base_version = base
           /\ TupleLess(base, run'.version_parts)
           /\ \A v \in stable : TupleLess(v, run'.version_parts)]_vars

\* a stable release cut from v1.4.0 by a breaking change while the older tag
\* v0.3.1 exists
C2_Witness ==
  /\ run.status = "ok"
  /\ run.channel = "stable"
  /\ {T_v1_4_0, T_v0_3_1} \subseteq {t.name : t \in gitTags}
  /\ run.base_tag = T_v1_4_0
  /\ run.version_parts = <<2, 0, 0>>

\* C3: bump_version applies exactly this table to a base (major, minor,
\* patch): major with major = 0 gives (0, minor+1, 0), the major segment never
\* leaving 0 on this path; major with major >= 1 gives (major+1, 0, 0); minor
\* gives (major, minor+1, 0); patch gives (major, minor, patch+1).
C3_BumpTable ==
  run.status = "ok" =>
    LET b == run.base_version
        n == run.next_base
    IN  /\ (run.bump = "major" /\ b[1] = 0)  => n = <<0, b[2] + 1, 0>>
        /\ (run.bump = "major" /\ b[1] >= 1) => n = <<b[1] + 1, 0, 0>>
        /\ run.bump = "minor" => n = <<b[1], b[2] + 1, 0>>
        /\ run.bump = "patch" => n = <<b[1], b[2], b[3] + 1>>
        /\ run.bump \in {"major", "minor", "patch"}

\* a breaking change on top of a 0.x base
C3_Witness ==
  /\ run.status = "ok"
  /\ run.bump = "major"
  /\ run.base_version = <<0, 3, 1>>
  /\ run.next_base = <<0, 4, 0>>

\* the tag of the previous invocation's version exists
PreviousTagged == \E t \in gitTags : t.name = <<"v">> \o run.printed

\* C4: on beta and dev the build ordinal returned for a bumped 3-segment base
\* is 1 when no 4-segment tag shares that base and otherwise 1 plus the
\* largest 4th segment among the 4-segment tags sharing it (tags of another
\* base do not count); the version resolved never equals an existing tag; and
\* when the previous build of the same bumped base was tagged, the ordinal is
\* exactly one more than the previous one.
C4_BuildOrdinals ==
  [][(Resolved /\ run'.channel # "stable") =>
       LET base    == run'.next_base
           builds  == {v[4] : v \in {w \in BuildVersions(gitTags) : SubSeq(w, 1, 3) = base}}
           ordinal == run'.version_parts[4]
       IN  /\ Len(run'.version_parts) = 4
           /\ SubSeq(run'.version_parts, 1, 3) = base
           /\ ordinal = IF builds = {} THEN 1 ELSE 1 + MaxNat(builds)
           /\ run'.version_parts \notin ListedVersions(gitTags)
           /\ (/\ run.status = "ok"
               /\ run.channel # "stable"
               /\ run.next_base = base
               /\ PreviousTagged) => ordinal = run.version_parts[4] + 1]_vars

\* the third build of 1.5.0: v1.5.0.1 existed, 1.5.0.2 was resolved and
\* tagged, and the next invocation resolves 1.5.0.3
C4_Witness ==
  /\ run.status = "ok"
  /\ run.channel # "stable"
  /\ run.version_parts = <<1, 5, 0, 3>>
  /\ {T_v1_5_0_1, <<"v","1",".","5",".","0",".","2">>} \subseteq {t.name : t \in gitTags}

\* the commits that are neither merge nor release-chore commits
Qualifying(commits) ==
  {i \in 1..Len(commits) : ~normalize_subject_skips(commits[i].subject)}

\* C5: when the commit range after the base revision holds no qualifying
\* commit (none at all, or none once merge and release-chore commits are
\* excluded), resolve with allow_empty false fails with NoCommitsFound and
\* returns no version, and with allow_empty true returns the patch bump of
\* the base.
C5_EmptyRange ==
  (run.status \in {"ok", "NoCommitsFound"} /\ Qualifying(run.commits) = {}) =>
    IF run.allow_empty
      THEN /\ run.status = "ok"
           /\ run.next_base =
                <<run.base_version[1], run.base_version[2], run.base_version[3] + 1>>
      ELSE run.status = "NoCommitsFound"

(***************************************************************************)
(* Properties of the version grammar (checked under SpecParser).           *)
(***************************************************************************)
\* the segments of a text as the grammar "optional leading v or V, then
\* dot-separated segments" reads it
SegmentsAfterPrefix(text) ==
  LET trimmed == strip(text)
      body    == IF trimmed # <<>> /\ trimmed[1] \in {"v", "V"} THEN Tail(trimmed)
                 ELSE trimmed
  IN  Split(body, ".")

\* C11: parse_version(text) is valid exactly when text, trimmed of
\* whitespace, is an optional leading v or V followed by 3 or 4 dot-separated
\* non-negative integers, and it then returns those integers in order; text
\* of 1 or 2 segments, or of 5 or more, is invalid.  For every list s of 3 or
\* 4 non-negative integers parse_version(format_version(s)) = s, and
\* format_version never emits a leading v.
C11_VersionGrammar ==
  /\ parser.pc = "parsed" =>
       LET segments == SegmentsAfterPrefix(parser.text)
       IN  IF Len(segments) \in 3..4 /\ \A i \in 1..Len(segments) : IsDigits(segments[i])
             THEN parser.result = [i \in 1..Len(segments) |-> int(segments[i])]
             ELSE parser.result = <<>>
  /\ parser.pc \in {"formatted", "reparsed"} =>
       parser.text[1] \notin {"v", "V"}
  /\ (parser.pc = "reparsed" /\ Len(parser.parts) \in 3..4) =>
       parser.result = parser.parts

(***************************************************************************)
(* Properties of the commit scan (checked under Spec).                     *)
(***************************************************************************)
\* the commits left once merge and release-chore commits are removed
WithoutMarkerCommits(commits) ==
  LET F[i \in 0..Len(commits)] ==
        IF i = 0 THEN <<>>
        ELSE IF normalize_subject_skips(commits[i].subject) THEN F[i-1]
        ELSE Append(F[i-1], commits[i])
  IN  F[Len(commits)]

\* C12: a commit whose subject begins with a merge marker or a release-chore
\* marker contributes nothing to version resolution: the severity resolved
\* for a commit range is the one resolved for the range without such commits,
\* whatever their body says, and a range made only of such commits is treated
\* as an empty one.
C12_MarkerCommitsIgnored ==
  run.status \in {"ok", "NoCommitsFound"} =>
    LET severity == classify_bump(WithoutMarkerCommits(run.commits))
    IN  IF severity = "None"
          THEN IF run.allow_empty THEN run.status = "ok" /\ run.bump = "patch"
               ELSE run.status = "NoCommitsFound"
          ELSE run.status = "ok" /\ run.bump = severity

\* the order patch < minor < major
SeverityRank == [patch |-> 1, minor |-> 2, major |-> 3]

\* the severity of one commit
CommitSeverity(commit) ==
  IF BREAKING_RE(commit.subject) \/ Contains(commit.body, S_BREAKING_CHANGE) THEN "major"
  ELSE IF FEATURE_RE(commit.subject) THEN "minor"
  ELSE "patch"

\* the maximum of the severities of a non-empty commit sequence
MaxSeverity(commits) ==
  LET each == {CommitSeverity(commits[i]) : i \in 1..Len(commits)}
  IN  CHOOSE m \in each : \A x \in each : SeverityRank[x] <= SeverityRank[m]

\* the commit sequences with the same commits in another order
Reorderings(commits) ==
  {[i \in 1..Len(commits) |-> commits[p[i]]] : p \in Permutations(1..Len(commits))}

FixThenFeat ==
  << [subject |-> Subj_feat, body |-> <<>>], [subject |-> Subj_fix, body |-> <<>>] >>

\* C13: for every non-empty commit sequence classify_bump returns the
\* maximum, in the order patch < minor < major, of the per-commit severities,
\* and the same for every permutation of the sequence; from base tag v1.4.0
\* with the commits fix: null check, feat: add importer the version resolved
\* is 1.5.0 on stable, and 1.5.0.1 on beta when no 4-segment tag shares 1.5.0.
C13_MaxFold ==
  [][(Resolved /\ run'.commits # <<>>) =>
       /\ run'.bump = MaxSeverity(run'.commits)
       /\ \A reordered \in Reorderings(run'.commits) :
            classify_bump(reordered) = run'.bump
       /\ (run'.base_tag = T_v1_4_0 /\ run'.commits \in Reorderings(FixThenFeat)) =>
            /\ run'.channel = "stable" => run'.version_parts = <<1, 5, 0>>
            /\ (/\ run'.channel = "beta"
                /\ \A v \in BuildVersions(gitTags) : SubSeq(v, 1, 3) # <<1, 5, 0>>)
                 => run'.version_parts = <<1, 5, 0, 1>>]_vars

\* the beta build resolved from v1.4.0 after fix: null check and
\* feat: add importer were committed in that order
C13_Witness ==
  /\ run.status = "ok"
  /\ run.channel = "beta"
  /\ run.base_tag = T_v1_4_0
  /\ run.commits = FixThenFeat
  /\ run.bump = "minor"
  /\ run.version_parts = <<1, 5, 0, 1>>

(***************************************************************************)
(* Properties of the baseline file VERSION (checked under Spec).           *)
(***************************************************************************)
\* this step is an invocation of next_version.py
Invoked == invocations' = invocations + 1

\* the text is one parse_version accepts: 3 or 4 numeric segments
WellFormed(text) == text # NoFile /\ Len(parse_version(text)) \in 3..4

\* C14: over any sequence of invocations, VERSION is written only by an
\* invocation run with --write that resolved a version, and then holds that
\* version, a text of 3 or 4 numeric segments that parse_version accepts; a
\* well-formed VERSION never becomes malformed, so no later invocation fails
\* on a baseline an earlier one wrote; a failed invocation leaves VERSION
\* unchanged; and when no stable tag exists, after a successful invocation
\* with --write the 3-segment base the next invocation reads from VERSION is
\* strictly greater than the base this invocation read.
C14_BaselinePersistence ==
  [][/\ versionFile' # versionFile =>
          /\ Invoked
          /\ run'.status = "ok"
          /\ run'.write
     /\ (Invoked /\ run'.status = "ok" /\ run'.write) =>
          /\ versionFile' = format_version(run'.version_parts) \o <<"\n">>
          /\ WellFormed(versionFile')
          /\ parse_version(versionFile') = run'.version_parts
     /\ WellFormed(versionFile) => WellFormed(versionFile')
     /\ (Invoked /\ run'.status # "ok") => versionFile' = versionFile
     /\ (Invoked /\ run'.status = "ok" /\ run'.write /\ StableVersions(gitTags) = {}) =>
          /\ read_version_file(versionFile).error = "none"
          /\ run'.base_version = read_version_file(versionFile).parts
          /\ read_version_file(versionFile').error = "none"
          /\ TupleLess(run'.base_version, read_version_file(versionFile').parts)]_vars

\* with no stable tag, a second invocation with --write that started from the
\* base 0.9.10 the first one wrote over 0.9.9
C14_Witness ==
  /\ invocations = 2
  /\ run.status = "ok"
  /\ run.write
  /\ run.base_tag = <<>>
  /\ run.base_version = <<0, 9, 10>>
  /\ versionFile = run.printed \o <<"\n">>

====
